---- MODULE Spec2Model ----
(***************************************************************************)
(* Model of dit (src/main.rs): a Telegram bot that polls a subreddit and   *)
(* forwards the posts matching a keyword list to its subscribers.          *)
(*                                                                         *)
(* One process runs main(): after the initializations it loops over        *)
(*   handle_requests(..).await                           (line 47)         *)
(*   the match on its result, saving the offset          (lines 48-56)     *)
(*   subreddit.latest, filter, fan-out                   (lines 58-104)    *)
(*   sleep                                               (line 106)        *)
(* The database (tables settings and subscribers) outlives the process.    *)
(*                                                                         *)
(* Text is a sequence of one-character strings, a reddit id a sequence of  *)
(* base-36 digit values, a decoded id a sequence of bytes, and             *)
(* Option<T> is a sequence of length at most one.                          *)
(***************************************************************************)
EXTENDS Integers, Sequences, FiniteSets, TLC

(* ------------------------------ bounds --------------------------------- *)

\* most updates in one getUpdates response
MaxUpdates == 2
\* most posts in one listing (the code asks for 20)
MaxPosts == 2
\* largest gap between the requested offset and the first update_id returned
MaxGap == 1
\* the chat offset is not driven past this value
MaxOffset == 11

(* ------------------------------ Option<T> ------------------------------ *)

None == << >>

Some(x) == << x >>

IsSome(o) == Len(o) = 1

Unwrap(o) == o[1]

(* ------------------------------ text ----------------------------------- *)

UpperToLower ==
    ("W" :> "w") @@ ("T" :> "t") @@ ("S" :> "s") @@ ("K" :> "k") @@ ("B" :> "b")

\* char::to_lowercase on the characters of the model's alphabet
to_lowercase_char(c) == IF c \in DOMAIN UpperToLower THEN UpperToLower[c] ELSE c

\* str::to_lowercase
to_lowercase(s) == [i \in 1..Len(s) |-> to_lowercase_char(s[i])]

\* str::contains: pat occurs in s as a contiguous substring
contains(s, pat) ==
    \E i \in 0..(Len(s) - Len(pat)) : SubSeq(s, i + 1, i + Len(pat)) = pat

\* a mutant of contains_any: the keyword is not lowercased
contains_any_raw_keyword(s, keywords) ==
    \E k \in 1..Len(keywords) : contains(to_lowercase(s), keywords[k])

\* fn contains_any(s, keywords), lines 115-120
contains_any(s, keywords) ==
    \E k \in 1..Len(keywords) :
        contains(to_lowercase(s), to_lowercase(keywords[k]))

\* a mutant of sub_matches: only the title is looked at
sub_matches_title_only(sub, keywords) ==
    contains_any(to_lowercase(sub.title), keywords)

\* fn sub_matches(sub, keywords), lines 110-113
sub_matches(sub, keywords) ==
    \/ contains_any(to_lowercase(sub.title), keywords)
    \/ contains_any(sub.selftext, keywords)

(* ------------------------------ reddit ids ----------------------------- *)

RECURSIVE Base36Value(_)
\* the integer a sequence of base-36 digits denotes
Base36Value(digits) ==
    IF digits = << >> THEN 0
    ELSE 36 * Base36Value(SubSeq(digits, 1, Len(digits) - 1)) + digits[Len(digits)]

RECURSIVE BytesBE(_)
\* the big-endian bytes of n, without leading zero bytes (none for 0)
BytesBE(n) == IF n = 0 THEN << >> ELSE Append(BytesBE(n \div 256), n % 256)

RECURSIVE LeadingZeros(_)
LeadingZeros(digits) ==
    IF digits # << >> /\ digits[1] = 0 THEN 1 + LeadingZeros(Tail(digits)) ELSE 0

\* base36::decode: Err for a character outside [0-9a-z]; otherwise the
\* big-endian bytes of the number, after one zero byte per leading '0'
decode(digits) ==
    IF \E i \in 1..Len(digits) : digits[i] \notin 0..35
    THEN [ok |-> FALSE, val |-> << >>]
    ELSE [ok |-> TRUE,
          val |-> [i \in 1..LeadingZeros(digits) |-> 0] \o BytesBE(Base36Value(digits))]

RECURSIVE cmp(_, _)
\* <Vec<u8> as Ord>::cmp: lexicographic, a proper prefix is Less
cmp(a, b) ==
    IF a = << >> /\ b = << >> THEN "Equal"
    ELSE IF a = << >> THEN "Less"
    ELSE IF b = << >> THEN "Greater"
    ELSE IF a[1] < b[1] THEN "Less"
    ELSE IF a[1] > b[1] THEN "Greater"
    ELSE cmp(Tail(a), Tail(b))

\* Iterator::max over a set of byte vectors: None when there is none
max(vecs) ==
    IF vecs = {} THEN None
    ELSE Some(CHOOSE v \in vecs : \A w \in vecs : cmp(w, v) # "Greater")

(* ------------------------------ configuration -------------------------- *)

\* KEYWORDS, split at ','  (lines 18-19)
keywords == << <<"w", "t", "s">>, <<"K", "B">> >>

\* the chats that write to the bot
Chats == {42, 7}

\* the posts the subreddit can list
Posts ==
    { [id |-> <<3>>,    title |-> <<"W", "T", "S">>, selftext |-> << >>,
       url |-> Some(<<"u">>)],
      [id |-> <<5>>,    title |-> <<"r", "n", "d">>, selftext |-> << >>,
       url |-> None],
      [id |-> <<7, 3>>, title |-> <<"x">>,           selftext |-> <<"K", "b">>,
       url |-> None],
      [id |-> <<7, 4>>, title |-> <<"w", "t", "S">>, selftext |-> <<"r">>,
       url |-> None] }

\* what an update can be: a command of either chat, another text, a message
\* without text, or an update that is no message
Contents ==
    { [kind |-> "message", chat_id |-> c, text |-> t] :
        c \in Chats, t \in { Some("/subscribe"), Some("/unsubscribe") } }
      \cup { [kind |-> "message", chat_id |-> 42, text |-> Some("/subscribe me")],
             [kind |-> "message", chat_id |-> 7, text |-> None],
             [kind |-> "other", chat_id |-> 0, text |-> None] }

(* ------------------------------ settings table ------------------------- *)

RECURSIVE to_string(_)
\* i64::to_string for n >= 0: the decimal digits
to_string(n) ==
    IF n < 10 THEN << n >> ELSE Append(to_string(n \div 10), n % 10)

RECURSIVE parse(_)
\* str::parse::<i64> of a string of decimal digits
parse(s) ==
    IF s = << >> THEN 0
    ELSE 10 * parse(SubSeq(s, 1, Len(s) - 1)) + s[Len(s)]

\* fn get(pool, key, default), lines 122-132: the row's value or the default
get(row, default) == IF IsSome(row) THEN Unwrap(row) ELSE default

\* a mutant of set: without ON CONFLICT .. DO UPDATE, a row that exists stays
set_keep_first(row, value) == IF IsSome(row) THEN row ELSE Some(value)

\* fn set(pool, key, value), lines 134-147: insert or overwrite the row
set(row, value) == Some(value)

(* ------------------------------ subscribers table ---------------------- *)

\* INSERT INTO subscribers (chat_id) VALUES ($1) on the table of the
\* migration: the registry is a set, a chat that is already in it stays in
\* it once and the statement is no error
insert_row(rows, chat_id) == rows \cup {chat_id}

\* DELETE FROM subscribers WHERE chat_id = $1: no row, no error
delete_rows(rows, chat_id) == rows \ {chat_id}

\* fn get_subscribers(pool), lines 149-157: the chat_ids as a HashSet
get_subscribers(rows) == rows

\* fn add_subscriber(pool, chat_id), lines 159-165
add_subscriber(rows, chat_id) == insert_row(rows, chat_id)

\* a mutant of remove_subscriber: the DELETE has lost its WHERE
remove_subscriber_all(rows, chat_id) == {}

\* fn remove_subscriber(pool, chat_id), lines 167-173
remove_subscriber(rows, chat_id) == delete_rows(rows, chat_id)

(* ------------------------------ chat: handle_requests ------------------ *)

\* the results getUpdates can give to a request with this offset: the
\* update ids are consecutive and none is below the offset
Results(offset) ==
    { << >> } \cup
    UNION { { [i \in 1..nf[1] |->
                 [update_id |-> nf[2] + i - 1, content |-> body[i]]] :
              body \in [1..nf[1] -> Contents] } :
            nf \in { x \in (1..MaxUpdates) \X (offset..(offset + MaxGap)) :
                       x[2] + x[1] <= MaxOffset } }

\* api.send_message(&reply): the attempt, and whether it got through
send_message(chat_id, text, send_fails) ==
    [chat_id |-> chat_id, text |-> text, delivered |-> chat_id \notin send_fails]

\* a mutant of on_subscribe: the acknowledgement goes out before the write
on_subscribe_reply_first(st, chat_id, write_fails, send_fails) ==
    LET replied == [st EXCEPT !.sent = Append(@,
                        send_message(chat_id, "Subscribed to mechmarket", send_fails))]
    IN  IF write_fails THEN [replied EXCEPT !.err = TRUE]
        ELSE [replied EXCEPT !.subs = add_subscriber(@, chat_id)]

\* a mutant of on_subscribe: the result of add_subscriber is dropped
on_subscribe_ignore_failure(st, chat_id, write_fails, send_fails) ==
    [st EXCEPT !.subs = IF write_fails THEN @ ELSE add_subscriber(@, chat_id),
               !.sent = Append(@,
                   send_message(chat_id, "Subscribed to mechmarket", send_fails))]

\* text == "/subscribe", lines 187-194: add_subscriber(..)?, then the reply
on_subscribe(st, chat_id, write_fails, send_fails) ==
    IF write_fails THEN [st EXCEPT !.err = TRUE]
    ELSE [st EXCEPT !.subs = add_subscriber(@, chat_id),
                    !.sent = Append(@,
                        send_message(chat_id, "Subscribed to mechmarket", send_fails))]

\* text == "/unsubscribe", lines 195-201: remove_subscriber(..)?, then the reply
on_unsubscribe(st, chat_id, write_fails, send_fails) ==
    IF write_fails THEN [st EXCEPT !.err = TRUE]
    ELSE [st EXCEPT !.subs = remove_subscriber(@, chat_id),
                    !.sent = Append(@,
                        send_message(chat_id, "Unsubscribed from mechmarket", send_fails))]

\* a mutant of on_update: a text that begins with "/subscribe" subscribes
on_update_prefix(st, update, write_fails, send_fails) ==
    LET content == update.content
    IN  IF content.kind = "message" /\ IsSome(content.text)
        THEN IF Unwrap(content.text) \in {"/subscribe", "/subscribe me"}
             THEN on_subscribe(st, content.chat_id, write_fails, send_fails)
             ELSE IF Unwrap(content.text) = "/unsubscribe"
             THEN on_unsubscribe(st, content.chat_id, write_fails, send_fails)
             ELSE st
        ELSE st

\* the body of the for loop for one update, lines 184-204
on_update(st, update, write_fails, send_fails) ==
    LET content == update.content
    IN  IF content.kind = "message" /\ IsSome(content.text)
        THEN IF Unwrap(content.text) = "/subscribe"
             THEN on_subscribe(st, content.chat_id, write_fails, send_fails)
             ELSE IF Unwrap(content.text) = "/unsubscribe"
             THEN on_unsubscribe(st, content.chat_id, write_fails, send_fails)
             ELSE st
        ELSE st

\* a mutant of next_offset: the offset stops at the update, not after it
next_offset_same(update) == update.update_id

\* new_offset = update.update_id as i64 + 1, line 205
next_offset(update) == update.update_id + 1

RECURSIVE for_update(_, _, _, _, _)
\* for update in response.result, lines 183-206: `?` leaves the loop and the
\* function at the first registry write that fails
for_update(result, i, st, write_fail_at, send_fails) ==
    IF i > Len(result) THEN st
    ELSE LET after == on_update(st, result[i], write_fail_at = i, send_fails)
         IN  IF after.err THEN after
             ELSE for_update(result, i + 1,
                             [after EXCEPT !.new_offset = next_offset(result[i])],
                             write_fail_at, send_fails)

\* a mutant of handle_requests: new_offset starts at 0, not at the offset
handle_requests_from_zero(subs, offset, response, write_fail_at, send_fails) ==
    LET st0 == [subs |-> subs, sent |-> << >>, new_offset |-> 0, err |-> FALSE]
    IN  IF response.ok
        THEN for_update(response.result, 1, st0, write_fail_at, send_fails)
        ELSE st0

\* a mutant of handle_requests: a failed getUpdates is returned as an error
handle_requests_fetch_fatal(subs, offset, response, write_fail_at, send_fails) ==
    LET st0 == [subs |-> subs, sent |-> << >>, new_offset |-> offset, err |-> FALSE]
    IN  IF response.ok
        THEN for_update(response.result, 1, st0, write_fail_at, send_fails)
        ELSE [st0 EXCEPT !.err = TRUE]

\* async fn handle_requests(pool, api, offset), lines 175-210.  The value is
\* [err, new_offset, subs, sent]: Err(..) or Ok(new_offset), the table and
\* the messages sent when it returns
handle_requests(subs, offset, response, write_fail_at, send_fails) ==
    LET st0 == [subs |-> subs, sent |-> << >>, new_offset |-> offset, err |-> FALSE]
    IN  IF response.ok
        THEN for_update(response.result, 1, st0, write_fail_at, send_fails)
        ELSE st0

\* the responses of api.get_updates: Err, or Ok with a result
Responses(offset) ==
    { [ok |-> FALSE, result |-> << >>] }
        \cup { [ok |-> TRUE, result |-> r] : r \in Results(offset) }

(* ------------------------------ feed ----------------------------------- *)

\* the listings subreddit.latest can return: distinct posts, in any order
Listings ==
    UNION { { p \in [1..n -> Posts] : \A i, j \in 1..n : p[i] = p[j] => i = j } :
            n \in 0..MaxPosts }

\* the responses of subreddit.latest(20, None): Err, or Ok with the posts
Latest ==
    { [ok |-> FALSE, children |-> << >>] }
        \cup { [ok |-> TRUE, children |-> p] : p \in Listings }

\* a mutant of is_new: the marker itself passes again
is_new_or_same(s, last_id) ==
    LET d  == decode(s.id)
        id == IF d.ok THEN d.val ELSE << >>
    IN  IF IsSome(last_id) THEN cmp(id, Unwrap(last_id)) # "Less" ELSE TRUE

\* `matches` in the filter closure, lines 62-67
is_new(s, last_id) ==
    LET d  == decode(s.id)
        id == IF d.ok THEN d.val ELSE << >>
    IN  IF IsSome(last_id) THEN cmp(id, Unwrap(last_id)) = "Greater" ELSE TRUE

\* the filter of lines 61-70, in the order of the listing
submissions(children, last_id) ==
    SelectSeq(children, LAMBDA s : is_new(s, last_id) /\ sub_matches(s, keywords))

\* a mutant of newest_id: the maximum over the posts that match the keywords
newest_id_of_matches(children) ==
    max({ decode(children[i].id).val :
            i \in { j \in 1..Len(children) :
                      decode(children[j].id).ok /\ sub_matches(children[j], keywords) } })

\* the new last_reddit_id, lines 72-77: the maximum of the ids that decode
newest_id(children) ==
    max({ decode(children[i].id).val :
            i \in { j \in 1..Len(children) : decode(children[j].id).ok } })

\* a mutant of next_last_reddit_id: a failed fetch forgets the marker
next_last_reddit_id_forget(posts, last_id) ==
    IF posts.ok THEN newest_id(posts.children) ELSE None

\* last_reddit_id after the match of lines 58-104: assigned in the Ok arm
\* alone
next_last_reddit_id(posts, last_id) ==
    IF posts.ok THEN newest_id(posts.children) ELSE last_id

\* the text of the message, lines 89-92
message(submission) ==
    IF IsSome(submission.url)
    THEN submission.title \o <<"\n">> \o Unwrap(submission.url)
    ELSE submission.title

\* the orders a HashSet of these chat_ids can be iterated in
Orderings(subs) ==
    { q \in [1..Cardinality(subs) -> subs] :
        \A i, j \in 1..Cardinality(subs) : q[i] = q[j] => i = j }

\* the chat_ids of the sends, and of those that went through if only_delivered
Recipients(sends, only_delivered) ==
    { sends[k].chat_id :
        k \in { j \in 1..Len(sends) : only_delivered => sends[j].delivered } }

\* a mutant of fan_out: the first send that fails ends the loop
fan_out_until_failure(submission, order, send_fails) ==
    LET failed == { k \in 1..Len(order) : order[k] \in send_fails }
        last   == IF failed = {} THEN Len(order)
                  ELSE CHOOSE k \in failed : \A j \in failed : k <= j
        sends  == [k \in 1..last |->
                     send_message(order[k], message(submission), send_fails)]
    IN  [id |-> submission.id, text |-> message(submission), sends |-> sends,
         to |-> Recipients(sends, FALSE),
         delivered |-> Recipients(sends, TRUE)]

\* for &chat_id in &subscribers, lines 88-98: one send per subscriber, in
\* the order of the HashSet, and `let _ =` drops what the send returns
fan_out(submission, order, send_fails) ==
    LET sends == [k \in 1..Len(order) |->
                    send_message(order[k], message(submission), send_fails)]
    IN  [id |-> submission.id, text |-> message(submission), sends |-> sends,
         to |-> Recipients(sends, FALSE),
         delivered |-> Recipients(sends, TRUE)]

\* the submissions the loop of lines 80-99 gets to: get_subscribers(..)? ends
\* main at the read_fail_at-th of them (0: every read succeeds)
Dispatched(subms, read_fail_at) ==
    IF read_fail_at = 0 THEN Len(subms) ELSE read_fail_at - 1

\* for s in submissions, lines 80-99: the subscribers are read anew for every
\* submission, orders[i] being the order they come in for the i-th
dispatch(subms, read_fail_at, send_fails, orders) ==
    [i \in 1..Dispatched(subms, read_fail_at) |->
        fan_out(subms[i], orders[i], send_fails)]

(* ------------------------------ state ---------------------------------- *)

VARIABLES
    pc,               \* where main is: "chat" (line 47), "match" (line 48),
                      \* "feed" (line 58), "sleep" (line 106); "exited" when
                      \* main has returned an error, "stopped" when the
                      \* process was stopped
    offset,           \* main's `offset`
    last_reddit_id,   \* main's `last_reddit_id`: Option<Vec<u8>>
    offset_row,       \* the row of key "offset" in table settings: Option<String>
    subscribers,      \* the chat_ids in table subscribers
    chat,             \* the call of handle_requests main is matching on
    feed,             \* the feed phase main is sleeping after
    watched           \* a send of an earlier feed phase of this run that is
                      \* being followed: Option<(id, chat_id)>

vars == <<pc, offset, last_reddit_id, offset_row, subscribers, chat, feed, watched>>

\* no call of handle_requests is being matched on
NoChat ==
    [ran |-> FALSE, response |-> [ok |-> FALSE, result |-> << >>],
     offset |-> 0, subs |-> {}, write_fail_at |-> 0,
     returned |-> [err |-> FALSE, new_offset |-> 0], sent |-> << >>]

\* no feed phase has just run
NoFeed ==
    [ran |-> FALSE, posts |-> [ok |-> FALSE, children |-> << >>],
     last_id |-> None, subs |-> {}, read_failed |-> FALSE, sent |-> << >>]

\* the first start: the migrations have just created the empty tables, and
\* lines 41-44 find no row "offset"
Init ==
    /\ pc = "chat"
    /\ offset = parse(get(None, <<0>>))
    /\ last_reddit_id = None
    /\ offset_row = None
    /\ subscribers = {}
    /\ chat = NoChat
    /\ feed = NoFeed
    /\ watched = None

\* the process is stopped from outside, wherever main is
Stop ==
    /\ pc \notin {"exited", "stopped"}
    /\ pc' = "stopped"
    /\ chat' = NoChat
    /\ feed' = NoFeed
    /\ watched' = None
    /\ UNCHANGED <<offset, last_reddit_id, offset_row, subscribers>>

\* the process is started again on the same database: lines 41-44
Restart ==
    /\ pc \in {"exited", "stopped"}
    /\ pc' = "chat"
    /\ offset' = parse(get(offset_row, <<0>>))
    /\ last_reddit_id' = None
    /\ chat' = NoChat
    /\ feed' = NoFeed
    /\ watched' = None
    /\ UNCHANGED <<offset_row, subscribers>>

\* the chats handle_requests can send a reply to for this result
Commanders(result) ==
    { result[i].content.chat_id :
        i \in { j \in 1..Len(result) :
                  result[j].content.text \in { Some("/subscribe"), Some("/unsubscribe") } } }

\* the updates of this result at which a registry write can fail (0: none does)
WriteFailures(result) ==
    { 0 } \cup { j \in 1..Len(result) :
                   result[j].content.text \in { Some("/subscribe"), Some("/unsubscribe") } }

\* line 47: handle_requests(&pool, &api, offset).await
HandleRequests ==
    /\ pc = "chat"
    /\ \E response \in Responses(offset) :
       \E send_fails \in SUBSET Commanders(response.result),
          write_fail_at \in WriteFailures(response.result) :
          LET r == handle_requests(subscribers, offset, response,
                                   write_fail_at, send_fails)
          IN  /\ subscribers' = r.subs
              /\ chat' = [ran |-> TRUE, response |-> response, offset |-> offset,
                          subs |-> subscribers, write_fail_at |-> write_fail_at,
                          returned |-> [err |-> r.err,
                                        new_offset |-> IF r.err THEN 0 ELSE r.new_offset],
                          sent |-> r.sent]
    /\ pc' = "match"
    /\ UNCHANGED <<offset, last_reddit_id, offset_row, feed, watched>>

\* lines 48-56: on Ok the new offset is kept and saved, and a save that
\* fails ends main (`?`); on Err the error is printed
MatchResult ==
    /\ pc = "match"
    /\ IF chat.returned.err
       THEN /\ pc' = "feed"
            /\ UNCHANGED <<offset, offset_row>>
       ELSE /\ offset' = chat.returned.new_offset
            /\ \E save_fails \in BOOLEAN :
                  IF save_fails
                  THEN pc' = "exited" /\ UNCHANGED offset_row
                  ELSE pc' = "feed" /\ offset_row' = set(offset_row, to_string(offset'))
    /\ chat' = NoChat
    /\ UNCHANGED <<last_reddit_id, subscribers, feed, watched>>

\* lines 58-104: the listing, the filter, the new last_reddit_id and the
\* fan-out; a get_subscribers that fails ends main (`?`)
FeedPhase ==
    /\ pc = "feed"
    /\ \E posts \in Latest, send_fails \in SUBSET subscribers :
          LET subms == IF posts.ok THEN submissions(posts.children, last_reddit_id)
                       ELSE << >>
          IN  \E read_fail_at \in 0..Len(subms) :
              \E orders \in [1..Dispatched(subms, read_fail_at) ->
                               Orderings(get_subscribers(subscribers))] :
                /\ last_reddit_id' = next_last_reddit_id(posts, last_reddit_id)
                /\ pc' = IF read_fail_at = 0 THEN "sleep" ELSE "exited"
                /\ feed' = [ran |-> TRUE, posts |-> posts, last_id |-> last_reddit_id,
                            subs |-> subscribers, read_failed |-> read_fail_at # 0,
                            sent |-> dispatch(subms, read_fail_at, send_fails,
                                              orders)]
    /\ UNCHANGED <<offset, offset_row, subscribers, chat, watched>>

\* line 106: tokio::time::sleep(30 s), then the next turn of the loop
Sleep ==
    /\ pc = "sleep"
    /\ pc' = "chat"
    /\ feed' = NoFeed
    /\ UNCHANGED <<offset, last_reddit_id, offset_row, subscribers, chat, watched>>

Next == HandleRequests \/ MatchResult \/ FeedPhase \/ Sleep \/ Stop \/ Restart

Spec == Init /\ [][Next]_vars

\* the (id, chat_id) of every send_message of a fan-out, lines 88-98
Pairs(sent) ==
    UNION { { <<sent[i].id, c>> : c \in sent[i].to } : i \in 1..Len(sent) }

\* an observer's step, no step of main: one send of the feed phase that has
\* just run is picked to be followed for the rest of the run
Watch ==
    /\ pc = "sleep"
    /\ watched = None
    /\ \E p \in Pairs(feed.sent) : watched' = Some(p)
    /\ UNCHANGED <<pc, offset, last_reddit_id, offset_row, subscribers, chat, feed>>

NextWatch == HandleRequests \/ MatchResult \/ FeedPhase \/ Sleep \/ Stop \/ Restart \/ Watch

\* the program with the observer: what Spec does, and a send followed
SpecWatch == Init /\ [][NextWatch]_vars

(* ------------------------------ the feed cycle ------------------------- *)

\* the decoded id of a post of the model (all of them decode)
IdOf(s) == decode(s.id).val

\* a feed phase has just run and its fetch succeeded
FeedFetched == feed.ran /\ feed.posts.ok

\* C1: after a feed cycle whose fetch succeeded with a non-empty batch, the
\* marker is the id of a post of the batch that no post of the batch,
\* matching or not, exceeds (in the order the program compares ids in)
C1_MarkerIsMaxOfBatch ==
    (FeedFetched /\ feed.posts.children # << >>) =>
        LET B == feed.posts.children
        IN  /\ IsSome(last_reddit_id)
            /\ \E i \in 1..Len(B) : IdOf(B[i]) = Unwrap(last_reddit_id)
            /\ \A i \in 1..Len(B) : cmp(IdOf(B[i]), Unwrap(last_reddit_id)) # "Greater"

\* the scenario of the specification: [3 "WTS", 5 "rnd"] with no marker
\* emits 3 alone and leaves the marker at 5
C1_Witness ==
    /\ FeedFetched
    /\ feed.last_id = None
    /\ [i \in 1..Len(feed.posts.children) |-> feed.posts.children[i].id] = << <<3>>, <<5>> >>
    /\ [i \in 1..Len(feed.sent) |-> feed.sent[i].id] = << <<3>> >>
    /\ last_reddit_id = Some(decode(<<5>>).val)

\* C2, as claimed: a feed cycle whose fetch succeeds with an empty batch
\* emits nothing and leaves the marker as it was
C2_EmptyBatchKeepsMarker ==
    (FeedFetched /\ feed.posts.children = << >>) =>
        /\ feed.sent = << >>
        /\ last_reddit_id = feed.last_id

\* id > M, or M absent: the candidates of a batch
IsCandidate(s, M) == M = None \/ cmp(IdOf(s), Unwrap(M)) = "Greater"

\* the ids of a sequence of posts or of sends
Ids(seq) == [i \in 1..Len(seq) |-> seq[i].id]

\* C3: what a successful feed cycle forwards is, in the order of the batch,
\* exactly the posts of the batch above the prior marker (all, without a
\* marker) that pass the keyword filter, each to the subscribers; when the
\* registry cannot be read the cycle ends early, and what it has forwarded
\* by then is the beginning of that sequence
C3_ForwardsExactlyNewMatches ==
    FeedFetched =>
        LET wanted == SelectSeq(feed.posts.children,
                          LAMBDA s : IsCandidate(s, feed.last_id)
                                        /\ sub_matches(s, keywords))
        IN  /\ Len(feed.sent) <= Len(wanted)
            /\ Ids(feed.sent) = SubSeq(Ids(wanted), 1, Len(feed.sent))
            /\ ~feed.read_failed => Len(feed.sent) = Len(wanted)
            /\ \A i \in 1..Len(feed.sent) : feed.sent[i].to = feed.subs

\* a batch with a post at the marker, a post below it and a new match, of
\* which the new match alone goes to a subscriber
C3_Witness ==
    /\ FeedFetched
    /\ feed.last_id = Some(decode(<<3>>).val)
    /\ Ids(feed.posts.children) = << <<3>>, <<7, 3>> >>
    /\ Ids(feed.sent) = << <<7, 3>> >>
    /\ feed.sent[1].to = {42}

\* None is below every id
MarkerLeq(a, b) == a = None \/ (b # None /\ cmp(Unwrap(a), Unwrap(b)) # "Greater")

\* C4, as claimed: no feed cycle lowers the marker
C4_MarkerNeverDecreases ==
    [][(pc = "feed" /\ pc' \in {"sleep", "exited"})
          => MarkerLeq(last_reddit_id, last_reddit_id')]_vars

(* ------------------------------ the chat cycle ------------------------- *)

\* the offset a start of the process would read from the database
Persisted == parse(get(offset_row, <<0>>))

\* main is running before and after the step (no stop, no start)
Running == pc \notin {"exited", "stopped"} /\ pc' # "stopped"

\* C5: while the process runs, whatever the chat cycles meet (updates from
\* the offset on, an empty result, a failed fetch, a failed registry write,
\* a failed save), no step lowers the offset in memory or the persisted one
C5_OffsetNeverDecreases ==
    [][Running => (offset' >= offset /\ Persisted' >= Persisted)]_vars

\* the offset has advanced twice, past a gap, and is saved
C5_Witness ==
    /\ pc = "match"
    /\ chat.offset = 2
    /\ offset = 2
    /\ Persisted = 2
    /\ ~chat.returned.err
    /\ chat.returned.new_offset = 4

\* handle_requests has returned from a successful fetch
ChatFetched == chat.ran /\ chat.response.ok

\* C6: when the fetch and every registry write succeed, handle_requests
\* returns Ok(update_id of the last update + 1), whatever the updates are,
\* and Ok(the offset it was given) for an empty result
C6_ReturnsLastUpdateIdPlusOne ==
    (ChatFetched /\ chat.write_fail_at = 0) =>
        LET result == chat.response.result
        IN  /\ ~chat.returned.err
            /\ chat.returned.new_offset =
                  IF result = << >> THEN chat.offset
                  ELSE result[Len(result)].update_id + 1

\* two updates that start after the offset and end with one that is no
\* message
C6_Witness ==
    /\ ChatFetched
    /\ chat.write_fail_at = 0
    /\ Len(chat.response.result) = 2
    /\ chat.response.result[1].update_id = chat.offset + 1
    /\ chat.response.result[2].content.kind = "other"
    /\ chat.returned.new_offset = chat.offset + 3

\* C7: when get_updates fails, handle_requests returns Ok(the offset it was
\* given), the registry is as it was and no message was sent; main, matching
\* on that Ok, keeps the offset and goes on to the feed phase of the same
\* cycle, from which nothing but a failing save of the offset keeps it
C7_FetchFailureIsNotFatal ==
    /\ [](chat.ran /\ ~chat.response.ok =>
            /\ chat.returned = [err |-> FALSE, new_offset |-> chat.offset]
            /\ subscribers = chat.subs
            /\ chat.sent = << >>)
    /\ [][(pc = "match" /\ ~chat.response.ok /\ pc' # "stopped") =>
            /\ offset' = offset
            /\ subscribers' = subscribers
            /\ pc' = "feed" \/ (pc' = "exited" /\ offset_row' = offset_row)]_vars

\* a failed fetch, with subscribers and an offset to keep
C7_Witness ==
    /\ chat.ran
    /\ ~chat.response.ok
    /\ chat.offset = 2
    /\ chat.subs = {42}

\* the update is a message whose text is exactly this command
IsCommand(update, text) ==
    update.content.kind = "message" /\ update.content.text = Some(text)

\* the updates handle_requests got through: all of them, or those before
\* the one whose registry write failed
Handled ==
    SubSeq(chat.response.result, 1,
           IF chat.write_fail_at = 0 THEN Len(chat.response.result)
           ELSE chat.write_fail_at - 1)

\* the acknowledgement a command is answered with
Acknowledgement(update) ==
    [chat_id |-> update.content.chat_id,
     text |-> IF IsCommand(update, "/subscribe") THEN "Subscribed to mechmarket"
              ELSE "Unsubscribed from mechmarket"]

\* the last command of chat c among these updates (0: there is none)
LastCommand(updates, c) ==
    LET at == { i \in 1..Len(updates) :
                  /\ updates[i].content.chat_id = c
                  /\ IsCommand(updates[i], "/subscribe")
                        \/ IsCommand(updates[i], "/unsubscribe") }
    IN  IF at = {} THEN 0 ELSE CHOOSE i \in at : \A j \in at : j <= i

\* C8: of a fetched result, in its order, every "/subscribe" puts its chat
\* into the table and every "/unsubscribe" takes it out, so a chat is in the
\* table according to its last command; each command is answered with its
\* fixed acknowledgement, to its chat, in the order of the commands; and a
\* command whose write fails is not answered: handle_requests returns the
\* error, with the commands before it done and answered
C8_CommandsAreAppliedThenAcknowledged ==
    ChatFetched =>
        LET commands == SelectSeq(Handled,
                            LAMBDA u : IsCommand(u, "/subscribe")
                                          \/ IsCommand(u, "/unsubscribe"))
        IN  /\ [i \in 1..Len(chat.sent) |->
                   [chat_id |-> chat.sent[i].chat_id, text |-> chat.sent[i].text]]
                 = [i \in 1..Len(commands) |-> Acknowledgement(commands[i])]
            /\ \A c \in Chats :
                  LET last == LastCommand(Handled, c)
                  IN  c \in subscribers <=>
                         IF last = 0 THEN c \in chat.subs
                         ELSE IsCommand(Handled[last], "/subscribe")
            /\ chat.returned.err <=> chat.write_fail_at # 0

\* a subscription that is written and answered, then one whose write fails
C8_Witness ==
    /\ ChatFetched
    /\ chat.subs = {}
    /\ Len(chat.response.result) = 2
    /\ IsCommand(chat.response.result[1], "/subscribe")
    /\ IsCommand(chat.response.result[2], "/subscribe")
    /\ chat.response.result[1].content.chat_id = 42
    /\ chat.response.result[2].content.chat_id = 7
    /\ chat.write_fail_at = 2
    /\ subscribers = {42}
    /\ Len(chat.sent) = 1

\* the command changes nothing in the table handle_requests started with
IsRepeat(update) ==
    \/ IsCommand(update, "/subscribe") /\ update.content.chat_id \in chat.subs
    \/ IsCommand(update, "/unsubscribe") /\ update.content.chat_id \notin chat.subs

C10_FeedFailureKeepsMarker ==
    /\ [](feed.ran /\ ~feed.posts.ok =>
            /\ feed.sent = << >>
            /\ last_reddit_id = feed.last_id)
    /\ [][(pc \in {"sleep", "chat", "match"} /\ pc' # "stopped") =>
            last_reddit_id' = last_reddit_id]_vars

\* a failed fetch with a marker, a subscriber and nothing sent
C10_Witness ==
    /\ feed.ran
    /\ ~feed.posts.ok
    /\ feed.last_id = Some(decode(<<5>>).val)
    /\ feed.subs = {42, 7}
    /\ pc = "sleep"

(* ------------------------------ the fan-out ---------------------------- *)

\* the posts of the batch a feed cycle has to forward
Wanted ==
    SelectSeq(feed.posts.children,
              LAMBDA s : IsCandidate(s, feed.last_id) /\ sub_matches(s, keywords))

\* C11: every item that is dispatched is sent once to each chat of the
\* registry as it is then, and to no other chat, whichever of these sends
\* fail; and the sends that fail keep no matched item of the batch from
\* being dispatched
C11_OneSendPerSubscriber ==
    FeedFetched =>
        /\ \A i \in 1..Len(feed.sent) :
              LET sends == feed.sent[i].sends
              IN  /\ Len(sends) = Cardinality(subscribers)
                  /\ \A c \in subscribers :
                        Cardinality({ k \in 1..Len(sends) : sends[k].chat_id = c }) = 1
                  /\ \A k \in 1..Len(sends) :
                        /\ sends[k].chat_id \in subscribers
                        /\ sends[k].text = feed.sent[i].text
        /\ ~feed.read_failed => Len(feed.sent) = Len(Wanted)

\* two matched items and two subscribers: the first send of the first item
\* fails, the second goes through, and the second item is dispatched as well
C11_Witness ==
    /\ FeedFetched
    /\ subscribers = {42, 7}
    /\ Len(feed.sent) = 2
    /\ Len(feed.sent[1].sends) = 2
    /\ ~feed.sent[1].sends[1].delivered
    /\ feed.sent[1].sends[2].delivered
    /\ Len(feed.sent[2].sends) = 2

(* ------------------------------ restarts ------------------------------- *)

\* the step starts the process again
Restarting == pc \in {"exited", "stopped"} /\ pc' = "chat"

\* C12, as claimed: a start of the process finds the marker the process had
\* when it stopped
C12_MarkerSurvivesRestart ==
    [][Restarting => last_reddit_id' = last_reddit_id]_vars

\* C13: a start on a database without an offset begins at 0 and any other
\* start at the offset that was saved last; every Ok of handle_requests has
\* its offset written to the store before the feed phase, so the feed phase
\* begins with the offset in memory being the offset in the store (0 and no
\* row, as long as none was saved)
C13_OffsetIsSavedAndResumed ==
    /\ [](pc \in {"chat", "feed", "sleep"} =>
            \/ offset_row = Some(to_string(offset))
            \/ offset_row = None /\ offset = 0)
    /\ [][(pc = "match" /\ ~chat.returned.err /\ pc' = "feed") =>
            /\ offset' = chat.returned.new_offset
            /\ offset_row' = Some(to_string(chat.returned.new_offset))]_vars
    /\ [][Restarting =>
            /\ offset_row' = offset_row
            /\ \/ offset_row = Some(to_string(offset'))
               \/ offset_row = None /\ offset' = 0]_vars

\* the feed phase begins with a two-digit offset that is saved
C13_Witness ==
    /\ pc = "feed"
    /\ offset = 10
    /\ offset_row = Some(<<1, 0>>)

(* ------------------------------ failures ------------------------------- *)

\* C14, as claimed: whatever fails once the loop is entered, main never
\* returns
C14_LoopNeverEnds == pc # "exited"

(* ------------------------------ the keyword filter --------------------- *)

LowerToUpper ==
    ("w" :> "W") @@ ("t" :> "T") @@ ("s" :> "S") @@ ("k" :> "K") @@ ("b" :> "B")

\* two characters are the same letter, whatever their case
SameLetter(a, b) ==
    (IF a \in DOMAIN LowerToUpper THEN LowerToUpper[a] ELSE a)
        = (IF b \in DOMAIN LowerToUpper THEN LowerToUpper[b] ELSE b)

\* keyword occurs in text, letter for letter, whatever the case of either
OccursIn(keyword, text) ==
    \E at \in 1..(Len(text) - Len(keyword) + 1) :
        \A i \in 1..Len(keyword) : SameLetter(text[at + i - 1], keyword[i])

\* one keyword at least occurs in the title or in the body
PassesFilter(s) ==
    \E k \in 1..Len(keywords) :
        OccursIn(keywords[k], s.title) \/ OccursIn(keywords[k], s.selftext)

\* C15: of the candidates of a batch, a feed cycle that runs to its end
\* forwards those and only those in whose title or body a keyword occurs,
\* whatever the case of the keyword and of the text
C15_FilterIsCaseInsensitiveSubstring ==
    (FeedFetched /\ ~feed.read_failed) =>
        \A i \in 1..Len(feed.posts.children) :
            LET s == feed.posts.children[i]
            IN  IsCandidate(s, feed.last_id) =>
                   ((\E j \in 1..Len(feed.sent) : feed.sent[j].id = s.id)
                        <=> PassesFilter(s))

\* post 73 passes by its body "Kb" and the keyword "KB", post 5 does not pass
C15_Witness ==
    /\ FeedFetched
    /\ feed.last_id = None
    /\ Ids(feed.posts.children) = << <<5>>, <<7, 3>> >>
    /\ Ids(feed.sent) = << <<7, 3>> >>

(* ------------------------------ the registry --------------------------- *)

\* among the updates handle_requests got through, chat c gave this command
Commanded(c, text) ==
    \E i \in 1..Len(Handled) :
        Handled[i].content.chat_id = c /\ IsCommand(Handled[i], text)

\* C16: the table of subscribers changes in handle_requests alone, on a
\* fetched result, and only for a chat that a "/subscribe" of the result
\* puts in or an "/unsubscribe" of the result takes out; other texts,
\* messages without text, other updates, empty results, failed fetches and
\* the whole feed phase leave it as it is
C16_RegistryChangesByCommandsOnly ==
    [][subscribers' # subscribers =>
          /\ pc = "chat"
          /\ pc' = "match"
          /\ chat'.response.ok
          /\ \A c \in subscribers' \ subscribers : Commanded(c, "/subscribe")'
          /\ \A c \in subscribers \ subscribers' : Commanded(c, "/unsubscribe")']_vars

\* a text that is no command and an update that is no message have left the
\* table as it was
C16_Witness ==
    /\ ChatFetched
    /\ Len(chat.response.result) = 2
    /\ chat.response.result[1].content.text = Some("/subscribe me")
    /\ chat.response.result[2].content.kind = "other"
    /\ chat.subs = {7}
    /\ subscribers = {7}

(* ------------------------------ the order of ids ----------------------- *)

RECURSIVE BytesValue(_)
\* the unsigned big-endian integer a sequence of bytes denotes
BytesValue(bytes) ==
    IF bytes = << >> THEN 0
    ELSE 256 * BytesValue(SubSeq(bytes, 1, Len(bytes) - 1)) + bytes[Len(bytes)]

\* C17, as claimed: the comparisons of a feed cycle, of the ids of the batch
\* with the marker and with each other, order the decoded ids as the
\* unsigned big-endian integers they denote
C17_IdsAreOrderedAsIntegers ==
    FeedFetched =>
        LET ids == { IdOf(feed.posts.children[i]) : i \in 1..Len(feed.posts.children) }
                      \cup (IF IsSome(feed.last_id) THEN {Unwrap(feed.last_id)} ELSE {})
        IN  \A a, b \in ids :
               cmp(a, b) = "Greater" <=> BytesValue(a) > BytesValue(b)

(* ------------------------------ failed registry writes ----------------- *)

\* C18: a registry write that fails ends handle_requests with the error at
\* that update: the commands before it are done and answered, that one and
\* the updates after it are not; handle_requests changes neither offset, and
\* main, on the error, keeps the offset in memory and in the store and goes
\* on to the feed phase; nothing before the next call of handle_requests
\* changes the offset, so that call asks for the same updates again
C18_FailedWriteKeepsOffset ==
    /\ [](chat.ran /\ chat.write_fail_at # 0 =>
            /\ chat.returned.err
            /\ offset = chat.offset
            /\ Len(chat.sent) =
                  Cardinality({ i \in 1..(chat.write_fail_at - 1) :
                      \/ IsCommand(chat.response.result[i], "/subscribe")
                      \/ IsCommand(chat.response.result[i], "/unsubscribe") }))
    /\ [][(pc = "chat" /\ pc' = "match") =>
            (offset' = offset /\ offset_row' = offset_row)]_vars
    /\ [][(pc = "match" /\ chat.write_fail_at # 0 /\ pc' # "stopped") =>
            (pc' = "feed" /\ offset' = chat.offset /\ offset_row' = offset_row)]_vars
    /\ [][(pc \in {"feed", "sleep"} /\ pc' \notin {"stopped"}) =>
            (offset' = offset /\ offset_row' = offset_row)]_vars

\* the write of the first of two updates fails, at offset 2
C18_Witness ==
    /\ ChatFetched
    /\ chat.offset = 2
    /\ Len(chat.response.result) = 2
    /\ chat.write_fail_at = 1
    /\ chat.returned.err
    /\ chat.sent = << >>
    /\ subscribers = chat.subs

(* ------------------------------ no item twice -------------------------- *)

\* a feed phase runs in this step
FeedRuns == pc = "feed" /\ pc' \in {"sleep", "exited"}

\* C19: within one run of the process no feed item is sent to the same
\* chat_id in two different cycles, whatever the listings fetched in between
\* (empty ones, failed fetches, ones whose highest id is lower than an
\* earlier one's): a send of an earlier cycle of the run, followed from then
\* on, is not among the sends of any later feed phase.
C19_NoItemTwiceToAChat ==
    [][(FeedRuns /\ IsSome(watched)) => Unwrap(watched) \notin Pairs(feed'.sent)]_vars


(* ------------------------------ commands before the feed --------------- *)

\* the last command of chat c that handle_requests got through, hence wrote
\* to the table, is this one
LastPersisted(c, text) ==
    LET last == LastCommand(Handled, c)
    IN  last # 0 /\ IsCommand(Handled[last], text)

\* in each cycle handle_requests has returned before the feed is fetched and
\* dispatched, the table stays as handle_requests left it until the cycle's
\* feed phase is over, and every dispatched item goes to the table as read
\* for it
PhasesInOrder ==
    /\ [][pc' = "match" => pc = "chat"]_vars
    /\ [][pc' = "feed" => pc = "match" /\ chat.ran]_vars
    /\ [][FeedRuns => (feed'.subs = subscribers)]_vars
    /\ [][(pc \in {"match", "feed"}) => UNCHANGED subscribers]_vars
    /\ [](feed.ran => \A i \in 1..Len(feed.sent) : feed.sent[i].to = feed.subs)

\* a chat whose last written command is "/unsubscribe" is out of the table,
\* comes back into it only by a written "/subscribe" of its own, and no item
\* is sent to a chat that is out of the table
UnsubscribedIsLeftOut ==
    /\ [](ChatFetched =>
             \A c \in Chats : LastPersisted(c, "/unsubscribe") => c \notin subscribers)
    /\ [][\A c \in subscribers' \ subscribers :
             pc = "chat" /\ LastPersisted(c, "/subscribe")']_vars
    /\ [](feed.ran => \A i \in 1..Len(feed.sent) : feed.sent[i].to \subseteq subscribers)

\* a chat whose last written command is "/subscribe" is in the table, and a
\* chat in the table is sent every item the cycle's feed phase matched
SubscribedGetsEveryItem ==
    /\ [](ChatFetched =>
             \A c \in Chats : LastPersisted(c, "/subscribe") => c \in subscribers)
    /\ [](feed.ran =>
             \A c \in subscribers : \A k \in 1..Len(Wanted) :
                \E i \in 1..Len(feed.sent) :
                   feed.sent[i].id = Wanted[k].id /\ c \in feed.sent[i].to)

\* C20: within each cycle the chat commands are handled to completion before
\* the feed is fetched and dispatched, and the registry is read again for
\* every dispatched item; so once an "/unsubscribe" of chat c is written no
\* item is sent to c in that cycle or a later one until a later "/subscribe"
\* of c is written, and a chat whose "/subscribe" was written in a cycle is
\* sent every item matched in that cycle's feed phase.
C20_CommandsTakeEffectBeforeTheFeed ==
    PhasesInOrder /\ UnsubscribedIsLeftOut /\ SubscribedGetsEveryItem

====
